---- MODULE Spec2Model ----
(***************************************************************************)
(* fastify-plugin-storagely: the plugin of src/src/index.ts as a state     *)
(* machine.  Registration creates one unstorage handle and decorates the   *)
(* server and the request level with it, with a prefix factory and with a  *)
(* snapshot/restore adapter; the onClose hook tears the handle down.       *)
(*                                                                         *)
(* Keys, prefixes and bases are strings, modelled as sequences of          *)
(* one-character strings over Chars.  The engine calls the plugin makes    *)
(* (prefixStorage, snapshot, restoreSnapshot, setItem, getItem, mount,     *)
(* getMounts, unmount, unwatch, dispose) are imported from unstorage       *)
(* (src/src/index.ts:2); they are modelled by the behaviour of unstorage   *)
(* 1.x with the in-memory driver the tests register.                       *)
(***************************************************************************)
EXTENDS Integers, Sequences, FiniteSets, TLC

VARIABLES
  phase,      \* "unregistered" | "running" | "closing" | "closed"
  opts,       \* the options given to register: [close |-> BOOLEAN]
  created,    \* number of createStorage calls so far
  deco,       \* the decorations of the server and the request level
  stores,     \* handle id -> (normalised key -> value): the in-memory driver's data
  mounts,     \* the handle's mountpoints, in the engine's order (root last)
  watching,   \* whether a watch subscription is active on the handle
  pc,         \* position of the onClose hook
  enumerated, \* the array getMounts('') returned to the hook
  idx,        \* index of the hook's for-loop over enumerated
  pending,    \* the error thrown inside the try block, held while finally runs
  result,     \* how the hook's promise settled, as the host sees it
  log,        \* every call the hook made on opts / the handle, and how it settled
  inBase,     \* the prefix / base string under test
  inKey,      \* the key string under test
  snap,       \* the last snapshot taken: [taken, data]
  atSnap,     \* the store as it was when the snapshot was taken
  touched,    \* the keys written or removed since the snapshot was taken
  last        \* the last storage operation performed through a decoration

vars == <<phase, opts, created, deco, stores, mounts, watching, pc, enumerated,
          idx, pending, result, log, inBase, inKey, snap, atSnap, touched, last>>

lifeVars == <<phase, opts, created, deco, mounts, watching, pc, enumerated, idx,
              pending, result, log>>

dataVars == <<stores, inBase, inKey, snap, atSnap, touched, last>>

(***************************************************************************)
(* Bounds                                                                  *)
(***************************************************************************)
\* most characters of the prefix (or base) and the key under test, together
MaxLen == 3
\* longest base a sub-store is mounted at
MaxMountLen == 2
\* most sub-stores mounted on the handle besides the root mount
MaxMounts == 2

Chars == {"a", ":", "/", "?"}

Values == {"v1", "v2"}

\* what getItem returns for a key that has no value
Null == "null"

RECURSIVE StringsOfLen(_)
StringsOfLen(n) ==
  IF n = 0 THEN {<<>>}
  ELSE {Append(s, c) : s \in StringsOfLen(n - 1), c \in Chars}

Strings(n) == UNION {StringsOfLen(k) : k \in 0..n}

Levels == {"server", "request"}

(***************************************************************************)
(* Key normalisation of the engine                                         *)
(***************************************************************************)
\* key.split("?")[0]
BeforeQuery(s) ==
  IF \E i \in 1..Len(s) : s[i] = "?"
  THEN LET q == CHOOSE i \in 1..Len(s) :
                  s[i] = "?" /\ \A j \in 1..(i - 1) : s[j] # "?"
       IN SubSeq(s, 1, q - 1)
  ELSE s

\* .replace(/[/\\]/g, ":")
ReplaceSlashes(s) == [i \in 1..Len(s) |-> IF s[i] \in {"/", "\\"} THEN ":" ELSE s[i]]

\* .replace(/:+/g, ":")
RECURSIVE CollapseColons(_)
CollapseColons(s) ==
  IF Len(s) <= 1 THEN s
  ELSE IF s[1] = ":" /\ s[2] = ":" THEN CollapseColons(Tail(s))
  ELSE <<s[1]>> \o CollapseColons(Tail(s))

\* .replace(/^:|:$/g, "")
TrimColons(s) ==
  LET a == IF Len(s) > 0 /\ s[1] = ":" THEN Tail(s) ELSE s
  IN IF Len(a) > 0 /\ a[Len(a)] = ":" THEN SubSeq(a, 1, Len(a) - 1) ELSE a

normalizeKey(key) == TrimColons(CollapseColons(ReplaceSlashes(BeforeQuery(key))))

normalizeBaseKey(base) ==
  LET b == normalizeKey(base) IN IF b = <<>> THEN <<>> ELSE Append(b, ":")

StartsWith(s, p) == Len(p) <= Len(s) /\ SubSeq(s, 1, Len(p)) = p

Slice(s, n) == SubSeq(s, n + 1, Len(s))

(***************************************************************************)
(* The handle's item operations (in-memory driver)                         *)
(***************************************************************************)
EmptyStore == [k \in {} |-> Null]

getItem(store, key) ==
  LET k == normalizeKey(key) IN IF k \in DOMAIN store THEN store[k] ELSE Null

setItem(store, key, value) ==
  LET k == normalizeKey(key)
  IN [x \in DOMAIN store \cup {k} |-> IF x = k THEN value ELSE store[x]]

removeItem(store, key) ==
  LET k == normalizeKey(key) IN [x \in DOMAIN store \ {k} |-> store[x]]

getKeys(store, base) ==
  LET b == normalizeBaseKey(base)
  IN {k \in DOMAIN store : StartsWith(k, b) /\ (Len(k) = 0 \/ k[Len(k)] # "$")}

(***************************************************************************)
(* The engine's utilities the plugin wraps                                 *)
(***************************************************************************)
\* a prefixed view: the handle it forwards to and the normalised base it adds;
\* an empty base returns the storage itself
prefixStorage(storage, base) == [storage |-> storage, base |-> normalizeBaseKey(base)]

\* nsStorage[op] = (key, ...args) => storage[op](base + key, ...args)
viewKey(view, key) == view.base \o key

snapshot(store, base) ==
  LET b == normalizeBaseKey(base)
  IN [l \in {Slice(k, Len(b)) : k \in getKeys(store, b)} |-> store[b \o l]]

\* an optional argument: passed, or left undefined
Given(s) == [given |-> TRUE, val |-> s]

Omitted == [given |-> FALSE, val |-> <<>>]

RECURSIVE SetAll(_, _, _, _)
SetAll(store, snapshotData, base, todo) ==
  IF todo = {} THEN store
  ELSE LET l == CHOOSE x \in todo : TRUE
       IN SetAll(setItem(store, base \o l, snapshotData[l]), snapshotData, base, todo \ {l})

\* restoreSnapshot(driver, snapshot, base = "")
restoreSnapshot(store, snapshotData, base) ==
  LET b == normalizeBaseKey(IF base.given THEN base.val ELSE <<>>)
  IN SetAll(store, snapshotData, b, DOMAIN snapshotData)

(***************************************************************************)
(* Internal utilities of the plugin                                        *)
(***************************************************************************)
\* a factory that drops the prefix it is given
createPrefixedStoragelyNoPrefix(storage, prefix) == prefixStorage(storage, <<>>)

\* createPrefixedStoragely(storage)(prefix)
createPrefixedStoragely(storage, prefix) == prefixStorage(storage, prefix)

\* a snapshot function that drops the base it is given
storagelySnapshotTakeWholeStore(store, base) == snapshot(store, <<>>)

\* createSnapshotedStoragely(storage)(base), on the data of storage
storagelySnapshotTake(store, base) == snapshot(store, base)

\* a restore method that does not forward its base
storagelySnapshotRestoreNoBase(store, snapshotData, base) ==
  restoreSnapshot(store, snapshotData, Omitted)

\* createSnapshotedStoragely(storage).restore(snapshot, base?)
storagelySnapshotRestore(store, snapshotData, base) ==
  restoreSnapshot(store, snapshotData, base)

(***************************************************************************)
(* Registration                                                            *)
(***************************************************************************)
\* the three values decorated at one level, each closing over a handle
Decorations(storagely) ==
  [storagely |-> storagely, storagelyPrefix |-> storagely, storagelySnapshot |-> storagely]

\* fastify.decorate(...)
ServerDecorations(storagely) == Decorations(storagely)

\* a request level that is given a storage of its own
RequestDecorationsOwnStorage(storagely) == Decorations(storagely + 1)

\* fastify.decorateRequest(...)
RequestDecorations(storagely) == Decorations(storagely)

NoDecorations == [l \in Levels |-> Decorations(0)]

NoSnapshot == [taken |-> FALSE, data |-> EmptyStore]

NoOp == [op |-> "none", level |-> "server", key |-> <<>>, value |-> Null, base |-> Omitted]

NoResult == [state |-> "pending", error |-> "none"]

\* the plugin function: createStorage, the six decorations, addHook, done()
Register ==
  /\ phase = "unregistered"
  /\ LET storagely == created + 1
     IN /\ created' = created + 1
        /\ stores' = Append(stores, EmptyStore)
        /\ deco' = [server |-> ServerDecorations(storagely),
                    request |-> RequestDecorations(storagely)]
  /\ mounts' = << <<>> >>
  /\ phase' = "running"
  /\ UNCHANGED <<opts, watching, pc, enumerated, idx, pending, result, log,
                 inBase, inKey, snap, atSnap, touched, last>>

(***************************************************************************)
(* What handlers do with the raw handle while the server runs              *)
(***************************************************************************)
\* mountpoints.push(base); mountpoints.sort((a, b) => b.length - a.length)
InsertMount(ms, b) ==
  LET NotShorter(m) == Len(m) >= Len(b)
      Shorter(m) == Len(m) < Len(b)
  IN SelectSeq(ms, NotShorter) \o <<b>> \o SelectSeq(ms, Shorter)

Mounted(ms, b) == \E i \in 1..Len(ms) : ms[i] = b

\* storagely.mount(base, driver)
Mount(base) ==
  /\ phase \in {"running", "closing"}
  /\ LET b == normalizeBaseKey(base)
     IN /\ b # <<>>
        /\ ~Mounted(mounts, b)
        /\ Len(mounts) <= MaxMounts
        /\ mounts' = InsertMount(mounts, b)
  /\ UNCHANGED <<phase, opts, created, deco, watching, pc, enumerated, idx,
                 pending, result, log>>
  /\ UNCHANGED dataVars

\* storagely.watch(callback)
Watch ==
  /\ phase = "running"
  /\ ~watching
  /\ watching' = TRUE
  /\ UNCHANGED <<phase, opts, created, deco, mounts, pc, enumerated, idx,
                 pending, result, log>>
  /\ UNCHANGED dataVars

\* fastify.storagely.setItem / req.storagely.setItem
SetItemAt(level, key, value) ==
  /\ phase = "running"
  /\ stores' = [stores EXCEPT ![deco[level].storagely] = setItem(@, key, value)]
  /\ last' = [op |-> "setItem", level |-> level, key |-> key, value |-> value,
              base |-> Omitted]
  /\ UNCHANGED lifeVars
  /\ UNCHANGED <<inBase, inKey, snap, atSnap, touched>>

\* fastify.storagely.getItem / req.storagely.getItem
GetItemAt(level, key) == getItem(stores[deco[level].storagely], key)

\* the keys whose value differs from the one the snapshot saw, after a write
Touch(store, key) ==
  IF ~snap.taken THEN touched
  ELSE LET k == normalizeKey(key)
       IN IF getItem(store, k) # getItem(atSnap, k) THEN touched \cup {k} ELSE touched \ {k}

\* fastify.storagelyPrefix(inBase).setItem(inKey, value)
ViewSetItem(level, value) ==
  /\ phase = "running"
  /\ LET view == createPrefixedStoragely(deco[level].storagelyPrefix, inBase)
         store == setItem(stores[view.storage], viewKey(view, inKey), value)
     IN /\ stores' = [stores EXCEPT ![view.storage] = store]
        /\ touched' = Touch(store, viewKey(view, inKey))
  /\ last' = [op |-> "viewSet", level |-> level, key |-> inKey, value |-> value,
              base |-> Given(inBase)]
  /\ UNCHANGED lifeVars
  /\ UNCHANGED <<inBase, inKey, snap, atSnap>>

\* fastify.storagelyPrefix(inBase).getItem(key)
ViewGetItem(level, prefix, key) ==
  LET view == createPrefixedStoragely(deco[level].storagelyPrefix, prefix)
  IN getItem(stores[view.storage], viewKey(view, key))

\* fastify.storagelyPrefix(inBase).removeItem(inKey)
ViewRemoveItem(level) ==
  /\ phase = "running"
  /\ LET view == createPrefixedStoragely(deco[level].storagelyPrefix, inBase)
         store == removeItem(stores[view.storage], viewKey(view, inKey))
     IN /\ stores' = [stores EXCEPT ![view.storage] = store]
        /\ touched' = Touch(store, viewKey(view, inKey))
  /\ last' = [op |-> "viewRemove", level |-> level, key |-> inKey, value |-> Null,
              base |-> Given(inBase)]
  /\ UNCHANGED lifeVars
  /\ UNCHANGED <<inBase, inKey, snap, atSnap>>

\* fastify.storagely.setItem(inBase + inKey, value)
RawSetItem(level, value) ==
  /\ phase = "running"
  /\ LET store == setItem(stores[deco[level].storagely], inBase \o inKey, value)
     IN /\ stores' = [stores EXCEPT ![deco[level].storagely] = store]
        /\ touched' = Touch(store, inBase \o inKey)
  /\ last' = [op |-> "rawSet", level |-> level, key |-> inBase \o inKey,
              value |-> value, base |-> Omitted]
  /\ UNCHANGED lifeVars
  /\ UNCHANGED <<inBase, inKey, snap, atSnap>>

\* const snap = await fastify.storagelySnapshot(inBase)
TakeSnapshot(level) ==
  /\ phase = "running"
  /\ LET store == stores[deco[level].storagelySnapshot]
     IN /\ snap' = [taken |-> TRUE, data |-> storagelySnapshotTake(store, inBase)]
        /\ atSnap' = store
  /\ touched' = {}
  /\ last' = [op |-> "snapshot", level |-> level, key |-> <<>>, value |-> Null,
              base |-> Given(inBase)]
  /\ UNCHANGED lifeVars
  /\ UNCHANGED <<stores, inBase, inKey>>

\* await fastify.storagelySnapshot.restore(snap, base?)
Restore(level, base) ==
  /\ phase = "running"
  /\ snap.taken
  /\ stores' = [stores EXCEPT ![deco[level].storagelySnapshot] =
                  storagelySnapshotRestore(@, snap.data, base)]
  /\ last' = [op |-> "restore", level |-> level, key |-> <<>>, value |-> Null,
              base |-> base]
  /\ UNCHANGED lifeVars
  /\ UNCHANGED <<inBase, inKey, snap, atSnap, touched>>

(***************************************************************************)
(* The onClose hook.  Every await is a point where the hook is suspended;  *)
(* one action runs the hook from one await to the next.  A call on opts or *)
(* on the handle settles by fulfilling ("ok") or by rejecting ("fail").    *)
(***************************************************************************)
Ev(op, ev, arg, flag) == [op |-> op, ev |-> ev, arg |-> arg, flag |-> flag]

Outcomes == {"ok", "fail"}

Rejected(error) == [state |-> "rejected", error |-> error]

Resolved == [state |-> "resolved", error |-> "none"]

\* storagely.getMounts(''): every mountpoint under the root, the root mount included
getMounts(ms, base) ==
  LET b == normalizeBaseKey(base)
      Under(m) == StartsWith(m, b)
  IN SelectSeq(ms, Under)

\* what unmount(base, true) leaves of the mountpoints
unmount(ms, base) ==
  LET b == normalizeBaseKey(base)
      Other(m) == m # b
  IN IF b = <<>> \/ ~Mounted(ms, b) THEN ms ELSE SelectSeq(ms, Other)

\* unmount returns at once for the root mount and for a base that is not mounted
UnmountOutcomes(ms, base) ==
  IF normalizeBaseKey(base) = <<>> \/ ~Mounted(ms, normalizeBaseKey(base))
  THEN {"ok"} ELSE Outcomes

\* a hook that calls the callback without awaiting it
OnCloseNotAwaited ==
  /\ phase = "running"
  /\ pc = "idle"
  /\ phase' = "closing"
  /\ pc' = "awaitUnwatch"
  /\ log' = (IF opts.close THEN Append(log, Ev("close", "call", <<>>, FALSE)) ELSE log)
              \o <<Ev("unwatch", "call", <<>>, FALSE)>>
  /\ UNCHANGED <<opts, created, deco, mounts, watching, enumerated, idx, pending, result>>
  /\ UNCHANGED <<stores, inBase, inKey, snap, atSnap, touched, last>>

\* the hook is invoked by the host: try { await opts.close?.() }
OnClose ==
  /\ phase = "running"
  /\ pc = "idle"
  /\ phase' = "closing"
  /\ pc' = "awaitClose"
  /\ log' = IF opts.close THEN Append(log, Ev("close", "call", <<>>, FALSE)) ELSE log
  /\ UNCHANGED <<opts, created, deco, mounts, watching, enumerated, idx, pending, result>>
  /\ UNCHANGED dataVars

\* the callback settles; finally { await storagely.unwatch()
CloseSettles(outcome) ==
  /\ pc = "awaitClose"
  /\ outcome \in (IF opts.close THEN Outcomes ELSE {"ok"})
  /\ pending' = IF outcome = "fail" THEN "close" ELSE "none"
  /\ log' = (IF opts.close THEN Append(log, Ev("close", outcome, <<>>, FALSE)) ELSE log)
              \o <<Ev("unwatch", "call", <<>>, FALSE)>>
  /\ pc' = "awaitUnwatch"
  /\ UNCHANGED <<phase, opts, created, deco, mounts, watching, enumerated, idx, result>>
  /\ UNCHANGED dataVars

\* a hook that disposes the handle without unmounting
LoopOrDisposeNoUnmount(l, e, i) ==
  /\ log' = Append(l, Ev("dispose", "call", <<>>, FALSE))
  /\ idx' = i
  /\ pc' = "awaitDispose"

\* a loop that unmounts without disposing the mount's driver
LoopOrDisposeKeepDriver(l, e, i) ==
  IF i <= Len(e)
  THEN /\ log' = Append(l, Ev("unmount", "call", e[i], FALSE))
       /\ idx' = i
       /\ pc' = "awaitUnmount"
  ELSE /\ log' = Append(l, Ev("dispose", "call", <<>>, FALSE))
       /\ idx' = i
       /\ pc' = "awaitDispose"

\* the head of the for-loop at index i, and what follows the loop:
\* await storagely.unmount(base, true) or await storagely.dispose()
LoopOrDispose(l, e, i) ==
  IF i <= Len(e)
  THEN /\ log' = Append(l, Ev("unmount", "call", e[i], TRUE))
       /\ idx' = i
       /\ pc' = "awaitUnmount"
  ELSE /\ log' = Append(l, Ev("dispose", "call", <<>>, FALSE))
       /\ idx' = i
       /\ pc' = "awaitDispose"

\* a rejected await inside finally: the hook's promise rejects with that error
HookThrows(l, error) ==
  /\ log' = l
  /\ result' = Rejected(error)
  /\ pc' = "done"
  /\ phase' = "closed"

\* unwatch settles; const mounts = storagely.getMounts(''); for (...) {
UnwatchSettles(outcome) ==
  /\ pc = "awaitUnwatch"
  /\ outcome \in Outcomes
  /\ IF outcome = "fail"
     THEN /\ HookThrows(Append(log, Ev("unwatch", "fail", <<>>, FALSE)), "unwatch")
          /\ UNCHANGED <<watching, enumerated, idx>>
     ELSE /\ watching' = FALSE
          /\ enumerated' = getMounts(mounts, <<>>)
          /\ LoopOrDispose(log \o <<Ev("unwatch", "ok", <<>>, FALSE),
                                     Ev("getMounts", "ok", <<>>, FALSE)>>,
                           getMounts(mounts, <<>>), 1)
          /\ UNCHANGED <<phase, result>>
  /\ UNCHANGED <<opts, created, deco, mounts, pending>>
  /\ UNCHANGED dataVars

\* unmount(base, true) settles; next iteration, or await storagely.dispose()
UnmountSettles(outcome) ==
  /\ pc = "awaitUnmount"
  /\ outcome \in UnmountOutcomes(mounts, enumerated[idx])
  /\ IF outcome = "fail"
     THEN /\ HookThrows(Append(log, Ev("unmount", "fail", enumerated[idx], TRUE)), "unmount")
          /\ UNCHANGED <<mounts, idx>>
     ELSE /\ mounts' = unmount(mounts, enumerated[idx])
          /\ LoopOrDispose(Append(log, Ev("unmount", "ok", enumerated[idx], TRUE)),
                           enumerated, idx + 1)
          /\ UNCHANGED <<phase, result>>
  /\ UNCHANGED <<opts, created, deco, watching, enumerated, pending>>
  /\ UNCHANGED dataVars

\* dispose settles; the finally block ends and the error of the try block, if
\* any, is thrown again
DisposeSettles(outcome) ==
  /\ pc = "awaitDispose"
  /\ outcome \in Outcomes
  /\ log' = Append(log, Ev("dispose", outcome, <<>>, FALSE))
  /\ result' = IF outcome = "fail" THEN Rejected("dispose")
               ELSE IF pending # "none" THEN Rejected(pending)
               ELSE Resolved
  /\ pc' = "done"
  /\ phase' = "closed"
  /\ UNCHANGED <<opts, created, deco, mounts, watching, enumerated, idx, pending>>
  /\ UNCHANGED dataVars

(***************************************************************************)
(* Specification of the plugin's lifecycle                                 *)
(***************************************************************************)
\* the keys handlers write while the lifecycle is explored
LifeKeys == {<<"a">>, <<"a", ":">>}

Init ==
  /\ phase = "unregistered"
  /\ opts \in [close : BOOLEAN]
  /\ created = 0
  /\ deco = NoDecorations
  /\ stores = <<>>
  /\ mounts = <<>>
  /\ watching = FALSE
  /\ pc = "idle"
  /\ enumerated = <<>>
  /\ idx = 0
  /\ pending = "none"
  /\ result = NoResult
  /\ log = <<>>
  /\ inBase = <<>>
  /\ inKey = <<>>
  /\ snap = NoSnapshot
  /\ atSnap = EmptyStore
  /\ touched = {}
  /\ last = NoOp

Next ==
  \/ Register
  \/ \E base \in Strings(MaxMountLen) : Mount(base)
  \/ Watch
  \/ \E level \in Levels, key \in LifeKeys, value \in Values : SetItemAt(level, key, value)
  \/ OnClose
  \/ \E outcome \in Outcomes : CloseSettles(outcome)
  \/ \E outcome \in Outcomes : UnwatchSettles(outcome)
  \/ \E outcome \in Outcomes : UnmountSettles(outcome)
  \/ \E outcome \in Outcomes : DisposeSettles(outcome)

Spec == Init /\ [][Next]_vars

(***************************************************************************)
(* Specifications of the prefix factory and of the snapshot adapter: the   *)
(* plugin is registered, and the prefix / base and the key under test are  *)
(* drawn from the strings of at most MaxLen characters together.           *)
(***************************************************************************)
InitRegistered ==
  /\ phase = "running"
  /\ opts = [close |-> FALSE]
  /\ created = 1
  /\ deco = [server |-> ServerDecorations(1), request |-> RequestDecorations(1)]
  /\ stores = <<EmptyStore>>
  /\ mounts = << <<>> >>
  /\ watching = FALSE
  /\ pc = "idle"
  /\ enumerated = <<>>
  /\ idx = 0
  /\ pending = "none"
  /\ result = NoResult
  /\ log = <<>>
  /\ inBase \in Strings(MaxLen)
  /\ inKey \in Strings(MaxLen - Len(inBase))
  /\ snap = NoSnapshot
  /\ atSnap = EmptyStore
  /\ touched = {}
  /\ last = NoOp

NextPrefix ==
  \/ \E level \in Levels, value \in Values : ViewSetItem(level, value)
  \/ \E level \in Levels : ViewRemoveItem(level)
  \/ \E level \in Levels, value \in Values : RawSetItem(level, value)

SpecPrefix == InitRegistered /\ [][NextPrefix]_vars

NextSnapshot ==
  \/ \E value \in Values : ViewSetItem("server", value)
  \/ ViewRemoveItem("server")
  \/ \E value \in Values : RawSetItem("server", value)
  \/ TakeSnapshot("server")
  \/ \E base \in {Omitted, Given(inBase)} : Restore("server", base)

SpecSnapshot == InitRegistered /\ [][NextSnapshot]_vars

(***************************************************************************)
(* Properties of the shutdown hook                                         *)
(***************************************************************************)
LogIdx == 1..Len(log)

Count(op, ev) == Cardinality({i \in LogIdx : log[i].op = op /\ log[i].ev = ev})

\* some call of the hook rejected
Failed == \E i \in LogIdx : log[i].ev = "fail"

\* the cleanup step an entry of the log belongs to
StepNo(op) ==
  CASE op = "close" -> 1
    [] op = "unwatch" -> 2
    [] op = "getMounts" -> 3
    [] op = "unmount" -> 3
    [] op = "dispose" -> 4

IsUnmountCall(e) == e.op = "unmount" /\ e.ev = "call"

UnmountCalls == SelectSeq(log, IsUnmountCall)

\* every mount the hook enumerated has had its unmount called
AllUnmountsCalled ==
  /\ Count("getMounts", "ok") = 1
  /\ \A k \in 1..Len(enumerated) :
       \E i \in LogIdx : IsUnmountCall(log[i]) /\ log[i].arg = enumerated[k]

\* C1: in a shutdown in which no step fails, the callback (if any), unwatch, the
\* unmounting of every enumerated mount and dispose happen in this order, each
\* call settling before the next one is made, and all of them have happened
\* once the hook has completed.
C1_CleanupOrder ==
  ~Failed =>
    /\ \A i, j \in LogIdx : i < j => StepNo(log[i].op) <= StepNo(log[j].op)
    /\ \A i \in LogIdx :
         (log[i].ev = "call" /\ i < Len(log)) =>
           log[i + 1] = Ev(log[i].op, "ok", log[i].arg, log[i].flag)
    /\ phase = "closed" =>
         /\ Count("close", "ok") = (IF opts.close THEN 1 ELSE 0)
         /\ Count("unwatch", "ok") = 1
         /\ \A k \in 1..Len(enumerated) :
              \E i \in LogIdx : log[i] = Ev("unmount", "ok", enumerated[k], TRUE)
         /\ Count("dispose", "ok") = 1
         /\ result = Resolved

C1_Witness ==
  /\ phase = "closed"
  /\ ~Failed
  /\ opts.close
  /\ Len(enumerated) >= 2
  /\ Count("dispose", "ok") = 1

\* C2: after a shutdown whose callback failed, unwatch, the unmount of every
\* mount and dispose have all been called, and the hook rejects with the
\* callback's error.
C2_CallbackFailurePropagates ==
  (phase = "closed" /\ Count("close", "fail") = 1) =>
    /\ Count("unwatch", "call") = 1
    /\ AllUnmountsCalled
    /\ Count("dispose", "call") = 1
    /\ result = Rejected("close")

\* C3: the handle is created once, at registration; dispose has not been called
\* before the hook runs, and has been called exactly once when the hook is over.
C3_DisposedExactlyOnce ==
  /\ created = (IF phase = "unregistered" THEN 0 ELSE 1)
  /\ phase \in {"unregistered", "running"} => Count("dispose", "call") = 0
  /\ Count("dispose", "call") <= 1
  /\ phase = "closed" => Count("dispose", "call") = 1

\* C4: a supplied callback is invoked exactly once per shutdown and has settled
\* before unwatch, unmount or dispose is called; without a callback the first
\* thing the hook calls is unwatch.
C4_CallbackFirst ==
  /\ Count("close", "call") <= 1
  /\ opts.close =>
       /\ phase \in {"closing", "closed"} => Count("close", "call") = 1
       /\ \A i \in LogIdx :
            (log[i].op \in {"unwatch", "getMounts", "unmount", "dispose"}) =>
              \E j \in 1..(i - 1) : log[j].op = "close" /\ log[j].ev \in Outcomes
  /\ ~opts.close =>
       /\ Count("close", "call") = 0
       /\ log # <<>> => log[1] = Ev("unwatch", "call", <<>>, FALSE)
       /\ phase = "closed" => Count("unwatch", "call") = 1

C4_Witness ==
  /\ phase = "closed"
  /\ opts.close
  /\ Count("close", "call") = 1
  /\ Count("close", "ok") = 1
  /\ Count("dispose", "call") = 1

\* C5: whatever cleanup step fails, once the hook is over every cleanup step
\* has still been run (unwatch, the unmount of every mount, dispose), and a
\* failure has been raised to the host.
C5_NoStepSkipped ==
  phase = "closed" =>
    /\ Count("unwatch", "call") = 1
    /\ AllUnmountsCalled
    /\ Count("dispose", "call") = 1
    /\ Failed => result.state = "rejected"

\* C8: after registration the request level resolves to the same handle and the
\* same factories as the server level, one storage exists, and a value written
\* through one level is read through both.
C8_SameHandleAtBothLevels ==
  phase # "unregistered" =>
    /\ deco["request"] = deco["server"]
    /\ created = 1
    /\ Len(stores) = 1
    /\ last.op = "setItem" =>
         \A level \in Levels : GetItemAt(level, last.key) = last.value

C8_Witness ==
  /\ last.op = "setItem"
  /\ last.level = "request"
  /\ GetItemAt("server", last.key) = last.value
  /\ last.value \in Values

\* C10: in a shutdown in which no step fails the hook enumerates the mounts
\* once, right after unwatch has settled; it calls unmount once per enumerated
\* base, in order, with the dispose flag set, each call settling before the
\* next; dispose is called only after the last unmount has settled.
C10_UnmountEachThenDispose ==
  ~Failed =>
    /\ Count("getMounts", "ok") <= 1
    /\ \A i \in LogIdx :
         log[i].op = "getMounts" =>
           i > 1 /\ log[i - 1] = Ev("unwatch", "ok", <<>>, FALSE)
    /\ Len(UnmountCalls) <= Len(enumerated)
    /\ \A k \in 1..Len(UnmountCalls) :
         UnmountCalls[k] = Ev("unmount", "call", enumerated[k], TRUE)
    /\ \A i \in LogIdx :
         (IsUnmountCall(log[i]) /\ i < Len(log)) =>
           log[i + 1] = Ev("unmount", "ok", log[i].arg, TRUE)
    /\ \A i \in LogIdx :
         (log[i].op = "dispose" /\ log[i].ev = "call") =>
           /\ Count("getMounts", "ok") = 1
           /\ Len(UnmountCalls) = Len(enumerated)
           /\ Count("unmount", "ok") = Len(enumerated)
           /\ \A j \in LogIdx : log[j].op = "unmount" => j < i
    /\ phase = "closed" => Count("dispose", "call") = 1

C10_Witness ==
  /\ phase = "closed"
  /\ ~Failed
  /\ Len(enumerated) >= 3
  /\ Count("unmount", "ok") = Len(enumerated)
  /\ mounts = << <<>> >>

(***************************************************************************)
(* Properties of the prefix factory                                        *)
(***************************************************************************)
IsSeparator(c) == c \in {":", "/", "\\"}

\* a prefix that is empty or ends with a key separator, and has no query part
EndsWithSeparator(prefix) ==
  /\ \A i \in 1..Len(prefix) : prefix[i] # "?"
  /\ prefix = <<>> \/ IsSeparator(prefix[Len(prefix)])

\* C7, as claimed: for every prefix P and key K, a value written at K through
\* storagelyPrefix(P) is read from the raw handle at P+K, and a value written
\* to the raw handle at P+K is read at K through storagelyPrefix(P).
C7_PrefixIsConcatenation ==
  /\ last.op = "viewSet" =>
       \A level \in Levels : GetItemAt(level, inBase \o inKey) = last.value
  /\ last.op = "rawSet" =>
       \A level \in Levels : ViewGetItem(level, inBase, inKey) = last.value

\* C7, amended: the same for every prefix P that is empty or ends with a key
\* separator (and holds no '?'); for the empty prefix the view is the raw
\* handle itself.
C7_PrefixWithSeparator ==
  /\ EndsWithSeparator(inBase) => C7_PrefixIsConcatenation
  /\ \A level \in Levels :
       createPrefixedStoragely(deco[level].storagelyPrefix, <<>>)
         = [storage |-> deco[level].storagely, base |-> <<>>]

C7_Witness ==
  /\ last.op = "viewSet"
  /\ inBase = <<"a", ":">>
  /\ inKey = <<"a">>
  /\ GetItemAt("server", <<"a", ":", "a">>) = last.value
  /\ GetItemAt("server", <<"a">>) = Null

(***************************************************************************)
(* Properties of the snapshot adapter                                      *)
(***************************************************************************)
\* key lies in the subtree of base
UnderBase(key, base) == StartsWith(key, normalizeBaseKey(base))

TheStore == stores[deco["server"].storagely]

\* the restore was asked to write into the subtree the snapshot was taken of
RestoredIntoSameBase ==
  /\ last.op = "restore"
  /\ \/ last.base = Given(inBase)
     \/ (last.base = Omitted /\ inBase = <<>>)

\* every key under the snapshot's base that the snapshot saw and that was
\* changed since has the value it had when the snapshot was taken
ChangedKeysAreBack ==
  \A k \in DOMAIN atSnap :
    (UnderBase(k, inBase) /\ k \in touched) => getItem(TheStore, k) = atSnap[k]

RestoreTarget(d) == normalizeBaseKey(IF last.base.given THEN last.base.val ELSE d)

\* every key of the snapshot is stored under base b with the snapshot's value
SnapshotWrittenUnder(b) ==
  \A l \in DOMAIN snap.data : getItem(TheStore, b \o l) = snap.data[l]

\* C9, as claimed: restore writes every key of the snapshot under base, and
\* under the base the snapshot was taken of when base is omitted.
C9_RestoreDefaultsToSnapshotBase ==
  last.op = "restore" => SnapshotWrittenUnder(RestoreTarget(inBase))

\* C9, amended: restore writes every key of the snapshot under base, and under
\* the root of the whole store when base is omitted, whatever base the snapshot
\* was taken of.
C9_RestoreDefaultsToRoot ==
  last.op = "restore" => SnapshotWrittenUnder(RestoreTarget(<<>>))

C9_Witness ==
  /\ last.op = "restore"
  /\ last.base = Omitted
  /\ normalizeBaseKey(inBase) # <<>>
  /\ snap.data # EmptyStore
  /\ SnapshotWrittenUnder(<<>>)
  /\ ~SnapshotWrittenUnder(normalizeBaseKey(inBase))

====
